---- MODULE Spec2Model ----
(***************************************************************************)
(* Model of the ArcGIS REST scraper: the query planner of                  *)
(* RestServiceMetadata (metadata.rs), the fetch/retry loop of scraping.rs  *)
(* and the spawn/drain loops of main (main.rs).                            *)
(*                                                                         *)
(* Option<T> values are records [some |-> BOOLEAN, val |-> T].             *)
(* The output file is a sequence of byte-level tokens <<kind, chunk, idx>> *)
(* together with the stream position; the tokens that main writes as their *)
(* own last byte ("[", ",", "]", "}") are single tokens, so a seek of one  *)
(* byte backwards moves over exactly one token.                            *)
(***************************************************************************)
EXTENDS Integers, Sequences, FiniteSets, TLC

VARIABLES
    args,                     \* the ProgramArguments of main
    call,                     \* a call of an encoding function: its name and arguments
    ret,                      \* what that call returned
    metadata,                 \* the RestServiceMetadata `result` of main
    pc,                       \* position of main
    remaining_records_count,  \* local of queries()
    query_index,              \* local of queries()
    result,                   \* local of queries(): the Vec<String> being built
    queries,                  \* main's `queries` (what queries() returned)
    fetch_worker_handles,     \* main's Vec<JoinHandle>: one task record per spawned task
    completion_order,         \* indices of the tasks in the order they finished
    output_created,           \* File::create(output_filename) has run
    output_file,              \* content of the output file
    output_pos,               \* stream position of output_file
    progress,                 \* main's `progress`: handles consumed by the drain loop
    run_result                \* what main returned

vars == <<args, call, ret, metadata, pc, remaining_records_count, query_index, result, queries,
          fetch_worker_handles, completion_order, output_created, output_file,
          output_pos, progress, run_result>>

(***************************************************************************)
(* Bounds of the model                                                     *)
(***************************************************************************)
MaxRecords == 2       \* small record counts / chunk sizes run from 0 to this
MaxFeatures == 2      \* features in one response
MaxQueryIndex == 4    \* cap on the iterations of the loop of queries()
MaxTries == 3         \* largest max_tries handed to fetch_query on its own
MaxSpan == 3          \* largest max - min of the identifier bounds
MaxLen == 3           \* longest string given to handle_csv_value

(***************************************************************************)
(* Program constants                                                       *)
(***************************************************************************)
HardCap == 10000      \* scrape_count's ceiling
retries == 10         \* main's `let retries = 10`
DefaultQueryRetires == 5   \* default_value_t of ProgramArguments.query_retires
worker_threads == 10  \* #[tokio::main(flavor = "multi_thread", worker_threads = 10)]

None == [some |-> FALSE, val |-> 0]
Some(v) == [some |-> TRUE, val |-> v]

Ok(v) == [ok |-> TRUE, val |-> v, err |-> "none"]
Err(e) == [ok |-> FALSE, val |-> <<>>, err |-> e]

(***************************************************************************)
(* RestServiceMetadata                                                      *)
(***************************************************************************)
GeometryTypeNames ==
    [Point |-> "esriGeometryPoint", Multipoint |-> "esriGeometryMultipoint",
     Polyline |-> "esriGeometryPolyline", Polygon |-> "esriGeometryPolygon",
     Envelope |-> "esriGeometryEnvelope", None |-> "esriGeometryNone"]

\* scrape_count without the ceiling
scrape_count_unclamped(m) == m.max_record_count

scrape_count(m) ==
    IF m.max_record_count <= HardCap THEN m.max_record_count ELSE HardCap

is_table(m) == m.server_type = "TABLE"

\* Rust evaluates the argument of unwrap_or before the call, so the `?` on
\* source_spatial_reference fires whether or not an output reference is set.
geometry_options(m) ==
    IF is_table(m)
    THEN Ok([has_geometry |-> FALSE, geometryType |-> "", outSR |-> 0])
    ELSE IF ~m.source_spatial_reference.some
         THEN Err("NoSpatialReference")
         ELSE Ok([has_geometry |-> TRUE,
                  geometryType |-> GeometryTypeNames[m.geo_type],
                  outSR |-> IF m.output_spatial_reference.some
                            THEN m.output_spatial_reference.val
                            ELSE m.source_spatial_reference.val])

pagination_query(m, idx) ==
    LET geo == geometry_options(m) IN
    IF ~geo.ok THEN Err(geo.err)
    ELSE Ok([kind |-> "pagination",
             where_field |-> "", where_lower |-> 0, where_upper |-> 0,
             resultOffset |-> idx * scrape_count(m),
             resultRecordCount |-> scrape_count(m),
             outFields |-> "*", f |-> "json",
             has_geometry |-> geo.val.has_geometry,
             geometryType |-> geo.val.geometryType,
             outSR |-> geo.val.outSR])

\* oid_query counting the chunks from one
oid_query_from_one(m, idx) ==
    IF ~m.oid_field.some THEN Err("MissingOidField")
    ELSE IF ~m.max_min_oid.some THEN Err("MissingOidField")
    ELSE LET min_oid == m.max_min_oid.val[2]
             lower_bound == min_oid + ((idx + 1) * scrape_count(m))
             geo == geometry_options(m)
         IN IF ~geo.ok THEN Err(geo.err)
            ELSE Ok([kind |-> "oid",
                     where_field |-> m.oid_field.val,
                     where_lower |-> lower_bound,
                     where_upper |-> lower_bound + scrape_count(m) - 1,
                     resultOffset |-> 0, resultRecordCount |-> 0,
                     outFields |-> "*", f |-> "json",
                     has_geometry |-> geo.val.has_geometry,
                     geometryType |-> geo.val.geometryType,
                     outSR |-> geo.val.outSR])

oid_query(m, idx) ==
    IF ~m.oid_field.some THEN Err("MissingOidField")
    ELSE IF ~m.max_min_oid.some THEN Err("MissingOidField")
    ELSE LET min_oid == m.max_min_oid.val[2]
             lower_bound == min_oid + (idx * scrape_count(m))
             geo == geometry_options(m)
         IN IF ~geo.ok THEN Err(geo.err)
            ELSE Ok([kind |-> "oid",
                     where_field |-> m.oid_field.val,
                     where_lower |-> lower_bound,
                     where_upper |-> lower_bound + scrape_count(m) - 1,
                     resultOffset |-> 0, resultRecordCount |-> 0,
                     outFields |-> "*", f |-> "json",
                     has_geometry |-> geo.val.has_geometry,
                     geometryType |-> geo.val.geometryType,
                     outSR |-> geo.val.outSR])

(***************************************************************************)
(* Descriptors as request_service_metadata builds them: the identifier    *)
(* bounds are requested only when pagination is off and an OID field      *)
(* exists, and the geometry kind is None exactly for the type "table".    *)
(***************************************************************************)
CountValues == (0 .. MaxRecords) \cup {HardCap, HardCap + 1, 2 * HardCap + 1}

MaxRecordCountValues == (-1 .. MaxRecords) \cup {HardCap, HardCap + 1, 2 * HardCap}

OidBoundsValues ==
    {None} \cup {Some(<<mn + d, mn>>) : mn \in {1, 7}, d \in 0 .. MaxSpan}

AsBuilt(m) ==
    /\ m.max_min_oid.some => (~m.pagination_enabled /\ m.oid_field.some)
    /\ (m.geo_type = "None") <=> (m.server_type = "table")

\* A service that holds n >= 1 records with distinct integer identifiers
\* between min and max: n <= max - min + 1, and n >= 2 when min < max.
CountFitsBounds(m) ==
    (m.max_min_oid.some /\ m.source_count.some /\ m.source_count.val >= 1)
        => LET mx == m.max_min_oid.val[1]
               mn == m.max_min_oid.val[2]
           IN /\ m.source_count.val <= mx - mn + 1
              /\ (mn < mx) => m.source_count.val >= 2

\* ceil(n / c) for c >= 1
CeilDiv(n, c) == (n + c - 1) \div c

\* The loop of queries() is followed for at most MaxQueryIndex iterations, so
\* descriptors with a usable chunk size are kept to that many chunks.
WithinCap(m) ==
    (m.source_count.some /\ scrape_count(m) >= 1)
        => CeilDiv(m.source_count.val, scrape_count(m)) <= MaxQueryIndex

PlanDescriptors ==
    {m \in [source_count : {None} \cup {Some(n) : n \in CountValues},
            max_record_count : MaxRecordCountValues,
            pagination_enabled : BOOLEAN,
            server_type : {"Feature Layer", "Table", "table", "TABLE"},
            geo_type : {"Point", "Polygon", "None"},
            oid_field : {None, Some("OBJECTID")},
            max_min_oid : OidBoundsValues,
            source_spatial_reference : {None, Some(4326)},
            output_spatial_reference : {None, Some(3857)}] :
        AsBuilt(m) /\ CountFitsBounds(m) /\ WithinCap(m)}

\* Descriptors of the whole-run specification: offset pagination, chunk size 1.
RunDescriptors ==
    {m \in PlanDescriptors :
        /\ m.source_count.some => m.source_count.val <= MaxRecords
        /\ m.max_record_count = 1
        /\ m.pagination_enabled /\ ~m.oid_field.some
        /\ m.server_type = "Feature Layer" /\ m.geo_type = "Point"
        /\ ~m.output_spatial_reference.some}

(***************************************************************************)
(* queries(), one action per loop iteration                                *)
(***************************************************************************)
MainReturns(r) ==
    /\ pc' = IF r.ok THEN "done" ELSE "failed"
    /\ run_result' = r

\* queries() that appends to a vector kept from the call before
QueriesBegin_keeps_result ==
    /\ pc = "queries"
    /\ IF ~metadata.pagination_enabled /\ ~metadata.oid_field.some
       THEN /\ MainReturns(Err("MissingOidField"))
            /\ UNCHANGED <<remaining_records_count, query_index, result>>
       ELSE IF ~metadata.source_count.some
       THEN /\ MainReturns(Err("MissingKey(count)"))
            /\ UNCHANGED <<remaining_records_count, query_index, result>>
       ELSE /\ result' = result
            /\ remaining_records_count' = metadata.source_count.val
            /\ query_index' = 0
            /\ pc' = "queries_loop"
            /\ UNCHANGED run_result
    /\ UNCHANGED <<args, call, ret, metadata, queries, fetch_worker_handles, completion_order,
                   output_created, output_file, output_pos, progress>>

QueriesBegin ==
    /\ pc = "queries"
    /\ IF ~metadata.pagination_enabled /\ ~metadata.oid_field.some
       THEN /\ MainReturns(Err("MissingOidField"))
            /\ UNCHANGED <<remaining_records_count, query_index, result>>
       ELSE IF ~metadata.source_count.some
       THEN /\ MainReturns(Err("MissingKey(count)"))
            /\ UNCHANGED <<remaining_records_count, query_index, result>>
       ELSE /\ result' = <<>>
            /\ remaining_records_count' = metadata.source_count.val
            /\ query_index' = 0
            /\ pc' = "queries_loop"
            /\ UNCHANGED run_result
    /\ UNCHANGED <<args, call, ret, metadata, queries, fetch_worker_handles, completion_order,
                   output_created, output_file, output_pos, progress>>

QueriesLoop ==
    /\ pc = "queries_loop"
    /\ remaining_records_count > 0
    /\ query_index < MaxQueryIndex
    /\ LET scrape_chunk_count == scrape_count(metadata)
           q == IF metadata.pagination_enabled
                THEN pagination_query(metadata, query_index)
                ELSE oid_query(metadata, query_index)
       IN IF ~q.ok
          THEN /\ MainReturns(Err(q.err))
               /\ UNCHANGED <<remaining_records_count, query_index, result>>
          ELSE /\ result' = Append(result, q.val)
               /\ query_index' = query_index + 1
               /\ remaining_records_count' =
                      IF remaining_records_count > scrape_chunk_count
                      THEN remaining_records_count - scrape_chunk_count
                      ELSE 0
               /\ UNCHANGED <<pc, run_result>>
    /\ UNCHANGED <<args, call, ret, metadata, queries, fetch_worker_handles, completion_order,
                   output_created, output_file, output_pos, progress>>

QueriesReturn ==
    /\ pc = "queries_loop"
    /\ ~(remaining_records_count > 0)
    /\ queries' = result
    /\ pc' = "spawn"
    /\ UNCHANGED <<args, call, ret, metadata, remaining_records_count, query_index, result,
                   fetch_worker_handles, completion_order, output_created,
                   output_file, output_pos, progress, run_result>>

(***************************************************************************)
(* Responses of the service to one chunk request.  A response says how far *)
(* try_query gets with it: whether send() succeeds, the status, whether    *)
(* the body is JSON, whether that JSON is an object, and which members the *)
(* object has.  features is the value of the "features" member: a sequence *)
(* of feature shapes, meaningful when features_is_array.  geojson_type and *)
(* crs are what main finds when it reads the chunk back as GeoJSON.        *)
(***************************************************************************)
FeatureShapes == {"ok", "not_object", "no_attributes", "attributes_not_object"}

\* k well-formed features
OkFeatures(k) == [i \in 1 .. k |-> "ok"]

\* The feature arrays of up to MaxFeatures elements that are well-formed or
\* have one malformed element, at any place.
FeatureArrays ==
    {OkFeatures(k) : k \in 0 .. MaxFeatures}
    \cup UNION {{[OkFeatures(k) EXCEPT ![j] = bad] :
                    j \in 1 .. k, bad \in FeatureShapes \ {"ok"}} :
                k \in 1 .. MaxFeatures}

Response(send_ok, status, is_json, is_object, has_features, has_error, features_is_array, features, geojson_type, crs) ==
    [send_ok |-> send_ok, status |-> status, is_json |-> is_json,
     is_object |-> is_object, has_features |-> has_features,
     has_error |-> has_error, features_is_array |-> features_is_array,
     features |-> features, geojson_type |-> geojson_type, crs |-> crs]

FailureResponses ==
    {Response(FALSE, 0, FALSE, FALSE, FALSE, FALSE, FALSE, <<>>, "Invalid", FALSE),
     Response(TRUE, 500, FALSE, FALSE, FALSE, FALSE, FALSE, <<>>, "Invalid", FALSE),
     Response(TRUE, 200, FALSE, FALSE, FALSE, FALSE, FALSE, <<>>, "Invalid", FALSE),
     Response(TRUE, 200, TRUE, FALSE, FALSE, FALSE, FALSE, <<>>, "Invalid", FALSE),
     Response(TRUE, 200, TRUE, TRUE, FALSE, TRUE, FALSE, <<>>, "Invalid", FALSE),
     Response(TRUE, 200, TRUE, TRUE, FALSE, FALSE, FALSE, <<>>, "Invalid", FALSE)}

FeatureResponses ==
    {Response(TRUE, 200, TRUE, TRUE, TRUE, FALSE, TRUE, fs, "FeatureCollection", crs) :
        fs \in FeatureArrays, crs \in BOOLEAN}
    \cup
    {Response(TRUE, 200, TRUE, TRUE, TRUE, FALSE, TRUE, <<>>, t, FALSE) :
        t \in {"Feature", "Invalid"}}
    \cup
    {Response(TRUE, 200, TRUE, TRUE, TRUE, FALSE, FALSE, <<>>, "Invalid", FALSE)}

Responses == FailureResponses \cup FeatureResponses

(***************************************************************************)
(* scraping.rs                                                             *)
(***************************************************************************)
try_query(r) ==
    IF ~r.send_ok THEN Err("reqwest::send")
    ELSE IF r.status # 200 THEN Err("InvalidResponse")
    ELSE IF ~r.is_json THEN Err("reqwest::decode")
    ELSE IF ~r.is_object THEN Err("InvalidJsonResponse")
    ELSE IF ~r.has_features
         THEN IF r.has_error THEN Err("ErrorJsonResponse")
                             ELSE Err("UnknownJsonResponse")
    ELSE Ok(r)

\* decode_fetch_error without the arm for InvalidResponse
RetryableErrors_no_status ==
    {"InvalidJsonResponse", "ErrorJsonResponse", "UnknownJsonResponse"}

\* The errors decode_fetch_error answers with `*attempts += 1; ... Ok(())`.
RetryableErrors ==
    {"InvalidResponse", "InvalidJsonResponse", "ErrorJsonResponse",
     "UnknownJsonResponse"}

\* a decode_fetch_error that counts a retryable failure twice
decode_fetch_error_counts_twice(attempts, error) ==
    IF error \in RetryableErrors
    THEN [attempts |-> attempts + 2, res |-> Ok(<<>>)]
    ELSE [attempts |-> attempts, res |-> Err(error)]

decode_fetch_error(attempts, error) ==
    IF error \in RetryableErrors
    THEN [attempts |-> attempts + 1, res |-> Ok(<<>>)]
    ELSE [attempts |-> attempts, res |-> Err(error)]

\* an off-by-one cap: one attempt too many
retries_exhausted_late(attempts, max_tries) == attempts > max_tries

\* `if attempts >= max_tries` of loop_until_successful
retries_exhausted(attempts, max_tries) == attempts >= max_tries

(***************************************************************************)
(* JSON values (serde_json::Value).  A number is an integer or a float     *)
(* with one decimal digit; an array holds integers.  An object is a        *)
(* function from its keys to values.                                       *)
(***************************************************************************)
JNull == [t |-> "null"]
JBool(b) == [t |-> "bool", b |-> b]
JInt(n) == [t |-> "int", n |-> n]
JFloat(whole, tenths) == [t |-> "float", whole |-> whole, tenths |-> tenths]
JString(s) == [t |-> "string", s |-> s]
JArray(items) == [t |-> "array", items |-> items]

EmptyObject == [k \in {} |-> JNull]

\* The items of an array from index i on, as compact JSON text.
RECURSIVE JoinItems(_, _)
JoinItems(items, i) ==
    IF i > Len(items) THEN ""
    ELSE IF i = Len(items) THEN ToString(items[i])
    ELSE ToString(items[i]) \o "," \o JoinItems(items, i + 1)

JObject(obj) == [t |-> "object", obj |-> obj]

\* The keys of an envelope in the order a serde_json::Map iterates them (its
\* default map is a BTreeMap: sorted keys).
MapKeyOrder == <<"mmax", "mmin", "xmax", "xmin", "ymax", "ymin", "zmax", "zmin">>

\* A float as serde_json writes it: always with a fraction.
json_number(float) == ToString(float.whole) \o "." \o ToString(float.tenths)

\* The members of an object of floats from the i-th key of MapKeyOrder on, as
\* compact JSON text; first tells that no member has been written yet.
RECURSIVE JoinMembers(_, _, _)
JoinMembers(obj, i, first) ==
    IF i > Len(MapKeyOrder) THEN ""
    ELSE IF MapKeyOrder[i] \notin DOMAIN obj THEN JoinMembers(obj, i + 1, first)
    ELSE (IF first THEN "" ELSE ",")
         \o "\"" \o MapKeyOrder[i] \o "\":" \o json_number(obj[MapKeyOrder[i]])
         \o JoinMembers(obj, i + 1, FALSE)

\* f64::to_string prints a float without fraction as an integer.
convert_json_value(json_value) ==
    CASE json_value.t = "null" -> ""
      [] json_value.t = "bool" -> IF json_value.b THEN "TRUE" ELSE "FALSE"
      [] json_value.t = "int" -> ToString(json_value.n)
      [] json_value.t = "float" ->
            IF json_value.tenths = 0
            THEN ToString(json_value.whole)
            ELSE ToString(json_value.whole) \o "." \o ToString(json_value.tenths)
      [] json_value.t = "string" -> json_value.s
      [] json_value.t = "array" -> "[" \o JoinItems(json_value.items, 1) \o "]"
      [] json_value.t = "object" -> "{" \o JoinMembers(json_value.obj, 1, TRUE) \o "}"

\* RestServiceField: codes is the coded-value domain, a function from the
\* text of a code to its label.
NoCodes == [some |-> FALSE, val |-> [c \in {} |-> ""]]

RestServiceField(name, field_type, codes) ==
    [name |-> name, field_type |-> field_type, codes |-> codes]

for_geometry(name) == RestServiceField(name, "Geometry", NoCodes)

\* The columns parse_fields declares for a geometry kind.
GeometryColumns ==
    [Point |-> <<"X", "Y">>, Multipoint |-> <<"POINTS">>,
     Polyline |-> <<"PATHS">>, Polygon |-> <<"RINGS">>,
     Envelope |-> <<"ENVELOPE">>, None |-> <<>>]

\* parse_fields on fields that hold no geometry field
parse_fields(fields, geo_type) ==
    fields \o [i \in 1 .. Len(GeometryColumns[geo_type]) |->
                  for_geometry(GeometryColumns[geo_type][i])]

\* convert_json_field that leaves the label of a coded field out
convert_json_field_no_label(field, json_value) ==
    <<convert_json_value(json_value)>>

convert_json_field(field, json_value) ==
    IF field.codes.some
    THEN LET codes == field.codes.val
             code == convert_json_value(json_value)
         IN IF code \in DOMAIN codes
            THEN <<code, codes[code]>>
            ELSE <<code, "">>
    ELSE <<convert_json_value(json_value)>>

\* A member of a feature object: absent, present with a value that is not an
\* object (null, say), or present with an object.
Absent == [present |-> FALSE, is_object |-> FALSE, obj |-> EmptyObject]
NotObject == [present |-> TRUE, is_object |-> FALSE, obj |-> EmptyObject]
Object(obj) == [present |-> TRUE, is_object |-> TRUE, obj |-> obj]

Feature(attributes, geometry) == [attributes |-> attributes, geometry |-> geometry]

Panicked(what) == [tag |-> "Panicked", err |-> what, val |-> <<>>]
Returned(val) == [tag |-> "Ok", err |-> "none", val |-> val]
Failed(error) == [tag |-> "Err", err |-> error, val |-> <<>>]

\* Indexing a serde_json::Map with a key it does not hold panics.
extract_geometry(feature, default_keys) ==
    IF ~feature.geometry.present THEN Panicked("index:geometry")
    ELSE IF feature.geometry.is_object THEN Returned(feature.geometry.obj)
    ELSE Returned([k \in {default_keys[i] : i \in 1 .. Len(default_keys)} |-> JString("")])

\* The keys convert_geometry reads for each geometry kind.
GeometryKeys ==
    [Point |-> <<"x", "y">>, Multipoint |-> <<"points">>,
     Polyline |-> <<"paths">>, Polygon |-> <<"rings">>,
     Envelope |-> <<"xmin", "ymin", "xmax", "ymax", "zmin", "zmax", "mmin", "mmax">>]

\* Value::as_f64: a number as a float, nothing for any other value.
as_f64(json_value) ==
    IF json_value.t = "int" THEN Some(JFloat(json_value.n, 0))
    ELSE IF json_value.t = "float" THEN Some(json_value)
    ELSE None

\* Every kind indexes the geometry map with each of its keys.  Envelope keeps
\* the numeric members in bounds_map and returns the text of that object as
\* its one value.
convert_geometry(geo_type, feature) ==
    IF geo_type = "None" THEN Returned(<<>>)
    ELSE LET keys == GeometryKeys[geo_type]
             geometry == extract_geometry(feature, keys)
         IN IF geometry.tag # "Ok" THEN geometry
            ELSE IF \E i \in 1 .. Len(keys) : keys[i] \notin DOMAIN geometry.val
            THEN Panicked("index:geometry key")
            ELSE IF geo_type = "Envelope"
            THEN LET present == {keys[i] : i \in {j \in 1 .. Len(keys) :
                                                     as_f64(geometry.val[keys[j]]).some}}
                     bounds_map == [k \in present |-> as_f64(geometry.val[k]).val]
                 IN Returned(<<convert_json_value(JObject(bounds_map))>>)
            ELSE Returned([i \in 1 .. Len(keys) |->
                              convert_json_value(geometry.val[keys[i]])])

\* The loop of handle_record over the fields from index i on.
RECURSIVE RecordFields(_, _, _, _)
RecordFields(fields, i, attributes, record) ==
    IF i > Len(fields) THEN Returned(record)
    ELSE IF fields[i].field_type = "Geometry"
    THEN RecordFields(fields, i + 1, attributes, record)
    ELSE IF fields[i].name \notin DOMAIN attributes
    THEN Panicked("index:attribute")
    ELSE RecordFields(fields, i + 1, attributes,
                      record \o convert_json_field(fields[i], attributes[fields[i].name]))

\* handle_record that puts the geometry values first
handle_record_geometry_first(fields, geo_type, feature) ==
    IF ~feature.attributes.present THEN Panicked("index:attributes")
    ELSE IF ~feature.attributes.is_object THEN Failed("MissingKey")
    ELSE LET record == RecordFields(fields, 1, feature.attributes.obj, <<>>)
         IN IF record.tag # "Ok" THEN record
            ELSE LET geometry == convert_geometry(geo_type, feature)
                 IN IF geometry.tag # "Ok" THEN geometry
                    ELSE Returned(geometry.val \o record.val)

\* handle_record on one feature object: a non-object "attributes" value is
\* MissingKey.
handle_record(fields, geo_type, feature) ==
    IF ~feature.attributes.present THEN Panicked("index:attributes")
    ELSE IF ~feature.attributes.is_object THEN Failed("MissingKey")
    ELSE LET record == RecordFields(fields, 1, feature.attributes.obj, <<>>)
         IN IF record.tag # "Ok" THEN record
            ELSE LET geometry == convert_geometry(geo_type, feature)
                 IN IF geometry.tag # "Ok" THEN geometry
                    ELSE Returned(record.val \o geometry.val)

\* '\r', '\n', ',' and '"'.  A string is a sequence of characters here.
quote == "\""
SpecialChars == {"\r", "\n", ",", quote}

\* value.replace("\"", "\"\"") from index i on
RECURSIVE replace_quotes(_, _)
replace_quotes(value, i) ==
    IF i > Len(value) THEN <<>>
    ELSE (IF value[i] = quote THEN <<quote, quote>> ELSE <<value[i]>>)
         \o replace_quotes(value, i + 1)

\* handle_csv_value that wraps but does not double the quotes
handle_csv_value_undoubled(value) ==
    IF \E i \in 1 .. Len(value) : value[i] \in SpecialChars
    THEN <<quote>> \o value \o <<quote>>
    ELSE value

handle_csv_value(value) ==
    IF \E i \in 1 .. Len(value) : value[i] \in SpecialChars
    THEN <<quote>> \o replace_quotes(value, 1) \o <<quote>>
    ELSE value

\* The service of the run: its fields, and the features behind the shapes of
\* a response.
ServiceFields ==
    parse_fields(<<RestServiceField("OBJECTID", "OID", NoCodes)>>, "Point")

ShapeFeature(shape) ==
    Feature(CASE shape = "no_attributes" -> Absent
              [] shape = "attributes_not_object" -> NotObject
              [] OTHER -> Object("OBJECTID" :> JInt(1)),
            Object("x" :> JInt(1) @@ "y" :> JInt(2)))

\* What handle_record returns for the feature object behind each shape.
ShapeRecord ==
    [shape \in FeatureShapes \ {"not_object"} |->
        handle_record(ServiceFields, "Point", ShapeFeature(shape))]

\* The loop of fetch_query over the features from index i on; rows holds the
\* indices of the features whose row has been written to the temporary file.
RECURSIVE WriteRecords(_, _, _)
WriteRecords(features, i, rows) ==
    IF i > Len(features) THEN [tag |-> "Ok", err |-> "none", rows |-> rows]
    ELSE IF features[i] = "not_object"
         THEN [tag |-> "Err", err |-> "InvalidFeature", rows |-> rows]
         ELSE LET record == ShapeRecord[features[i]]
              IN IF record.tag # "Ok"
                 THEN [tag |-> record.tag, err |-> record.err, rows |-> rows]
                 ELSE WriteRecords(features, i + 1, Append(rows, i))

NoFile == [geojson_type |-> "Invalid", crs |-> FALSE, features |-> <<>>]

\* fetch_query after loop_until_successful returned the response object r.
fetch_query_records(r) ==
    IF ~r.features_is_array
    THEN [tag |-> "Panicked", err |-> "unwrap:features", file |-> NoFile]
    ELSE LET w == WriteRecords(r.features, 1, <<>>)
         IN IF w.tag = "Ok"
            THEN [tag |-> "Ok", err |-> "none",
                  file |-> [geojson_type |-> r.geojson_type, crs |-> r.crs,
                            features |-> w.rows]]
            ELSE [tag |-> w.tag, err |-> w.err, file |-> NoFile]

Running(max_tries) ==
    [state |-> "running", max_tries |-> max_tries, attempts |-> 0, calls |-> 0,
     last_error |-> "none", tag |-> "none", err |-> "none", err_arg |-> 0,
     file |-> NoFile]

\* A task that is over: the locals of loop_until_successful are gone.
Finished(task, calls, last_error, outcome) ==
    [state |-> "finished", max_tries |-> task.max_tries, attempts |-> 0,
     calls |-> calls, last_error |-> last_error,
     tag |-> outcome.tag, err |-> outcome.err,
     err_arg |-> IF outcome.err = "TooManyRetires" THEN task.max_tries ELSE 0,
     file |-> outcome.file]

\* The number of requests issued (calls) and the error of the latest attempt
\* (last_error, "none" when it succeeded) are kept only where fetch_query is
\* exercised on its own.
Observed == pc = "fetch_query"

(***************************************************************************)
(* One iteration of the loop of loop_until_successful in task t, with the  *)
(* rest of fetch_query when the loop is left.                              *)
(***************************************************************************)
TryQuery(t, r) ==
    /\ pc \in {"spawn", "drain", "fetch_query"}
    /\ t \in 1 .. Len(fetch_worker_handles)
    /\ fetch_worker_handles[t].state \in {"running", "sent"}
    /\ LET task == fetch_worker_handles[t]
           calls == IF Observed THEN task.calls + 1 ELSE 0
           q == try_query(r)
           decoded == decode_fetch_error(task.attempts, q.err)
           last == IF Observed THEN q.err ELSE task.last_error
           new ==
             IF q.ok
             THEN Finished(task, calls, last, fetch_query_records(q.val))
             ELSE IF ~decoded.res.ok
             THEN Finished(task, calls, last,
                           [tag |-> "Err", err |-> decoded.res.err, file |-> NoFile])
             ELSE IF retries_exhausted(decoded.attempts, task.max_tries)
             THEN Finished(task, calls, last,
                           [tag |-> "Err", err |-> "TooManyRetires", file |-> NoFile])
             ELSE [task EXCEPT !.state = "running",
                               !.attempts = decoded.attempts,
                               !.calls = calls, !.last_error = last]
       IN /\ fetch_worker_handles' = [fetch_worker_handles EXCEPT ![t] = new]
          /\ completion_order' = IF new.state = "finished"
                                 THEN Append(completion_order, t)
                                 ELSE completion_order
    /\ UNCHANGED <<args, call, ret, metadata, pc, remaining_records_count, query_index, result,
                   queries, output_created, output_file, output_pos, progress,
                   run_result>>

(***************************************************************************)
(* main.rs                                                                 *)
(***************************************************************************)
Tok(kind, chunk, idx) == <<kind, chunk, idx>>

OPEN == Tok("{\"type\":\"FeatureCollection\",", 0, 0)
FEATURES_KEY == Tok("\"features\":", 0, 0)
LBRACKET == Tok("[", 0, 0)
COMMA == Tok(",", 0, 0)
RBRACKET == Tok("]", 0, 0)
RBRACE == Tok("}", 0, 0)
CRS(chunk) == Tok("\"crs\":{},", chunk, 0)
FEATURE(chunk, idx) == Tok("feature", chunk, idx)

\* write!(file, ...) at stream position pos: overwrites, then extends.
WriteAt(file, pos, toks) ==
    [i \in 1 .. (IF Len(file) > pos + Len(toks) THEN Len(file) ELSE pos + Len(toks)) |->
        IF i > pos /\ i <= pos + Len(toks) THEN toks[i - pos] ELSE file[i]]

\* `for feature in collection.features { write!(output_file, "{},", ...) }`
FeatureTokens(chunk, features) ==
    [i \in 1 .. 2 * Len(features) |->
        IF i % 2 = 1 THEN FEATURE(chunk, features[(i + 1) \div 2]) ELSE COMMA]

\* a drain that writes the crs member of every chunk that carries one
CollectionTokens_crs_of_every_chunk(chunk, file, pos) ==
    IF file.geojson_type # "FeatureCollection" THEN <<>>
    ELSE (IF pos = 0 THEN <<OPEN>> ELSE <<>>)
         \o (IF file.crs THEN <<CRS(chunk)>> ELSE <<>>)
         \o (IF pos = 0 THEN <<FEATURES_KEY, LBRACKET>> ELSE <<>>)
         \o FeatureTokens(chunk, file.features)

\* The tokens one iteration of the drain loop writes before it seeks back.
CollectionTokens(chunk, file, pos) ==
    IF file.geojson_type # "FeatureCollection" THEN <<>>
    ELSE (IF pos = 0
          THEN <<OPEN>> \o (IF file.crs THEN <<CRS(chunk)>> ELSE <<>>)
                        \o <<FEATURES_KEY, LBRACKET>>
          ELSE <<>>)
         \o FeatureTokens(chunk, file.features)

SpawnFetchWorker ==
    /\ pc = "spawn"
    /\ Len(fetch_worker_handles) < Len(queries)
    /\ fetch_worker_handles' = Append(fetch_worker_handles, Running(retries))
    /\ UNCHANGED <<args, call, ret, metadata, pc, remaining_records_count, query_index, result,
                   queries, completion_order, output_created, output_file,
                   output_pos, progress, run_result>>

\* an output file created as soon as one task is spawned
CreateOutputFile_early ==
    /\ pc = "spawn"
    /\ Len(fetch_worker_handles) >= 1
    /\ output_created' = TRUE
    /\ output_file' = <<>>
    /\ output_pos' = 0
    /\ progress' = 0
    /\ pc' = "drain"
    /\ UNCHANGED <<args, call, ret, metadata, remaining_records_count, query_index, result,
                   queries, fetch_worker_handles, completion_order, run_result>>

CreateOutputFile ==
    /\ pc = "spawn"
    /\ Len(fetch_worker_handles) = Len(queries)
    /\ output_created' = TRUE
    /\ output_file' = <<>>
    /\ output_pos' = 0
    /\ progress' = 0
    /\ pc' = "drain"
    /\ UNCHANGED <<args, call, ret, metadata, remaining_records_count, query_index, result,
                   queries, fetch_worker_handles, completion_order, run_result>>

\* a drain that takes the handles as they complete
AwaitedHandle_completion ==
    IF progress < Len(completion_order)
    THEN completion_order[progress + 1]
    ELSE 0

\* `for handle in fetch_worker_handles`: the handle the loop awaits next.
AwaitedHandle == progress + 1

\* a drain that does not look at the task's result
TaskFailed_ignored(task) == FALSE

\* `if let Err(error) = result`
TaskFailed(task) == task.tag = "Err"

\* One iteration of `for handle in fetch_worker_handles`.
CollectFetchWorker ==
    /\ pc = "drain"
    /\ progress < Len(fetch_worker_handles)
    /\ AwaitedHandle \in 1 .. Len(fetch_worker_handles)
    /\ fetch_worker_handles[AwaitedHandle].state = "finished"
    /\ LET chunk == AwaitedHandle
           task == fetch_worker_handles[chunk]
       IN IF task.tag = "Panicked"
          THEN /\ MainReturns(Err("JoinError"))
               /\ UNCHANGED <<progress, output_file, output_pos>>
          ELSE /\ progress' = progress + 1
               /\ IF TaskFailed(task)
                  THEN /\ MainReturns(Err(task.err))
                       /\ UNCHANGED <<output_file, output_pos>>
                  ELSE IF task.file.geojson_type = "Invalid"
                  THEN /\ MainReturns(Err("geojson"))
                       /\ UNCHANGED <<output_file, output_pos>>
                  ELSE LET toks == CollectionTokens(chunk, task.file, output_pos)
                           written == WriteAt(output_file, output_pos, toks)
                           pos == output_pos + Len(toks)
                       IN IF pos - 1 < 0
                          THEN /\ MainReturns(Err("io::seek"))
                               /\ output_file' = written
                               /\ output_pos' = pos
                          ELSE /\ output_file' =
                                     WriteAt(written, pos - 1, <<RBRACKET, RBRACE>>)
                               /\ output_pos' = pos + 1
                               /\ UNCHANGED <<pc, run_result>>
    /\ UNCHANGED <<args, call, ret, metadata, remaining_records_count, query_index, result,
                   queries, fetch_worker_handles, completion_order, output_created>>

Finish ==
    /\ pc = "drain"
    /\ progress = Len(fetch_worker_handles)
    /\ MainReturns(Ok(<<>>))
    /\ UNCHANGED <<args, call, ret, metadata, remaining_records_count, query_index, result,
                   queries, fetch_worker_handles, completion_order, output_created,
                   output_file, output_pos, progress>>

(***************************************************************************)
(* Specifications                                                          *)
(***************************************************************************)
NoCall == [fn |-> "none"]
NoReturn == [tag |-> "none"]

InitCommon ==
    /\ call = NoCall
    /\ ret = NoReturn
    /\ remaining_records_count = 0
    /\ query_index = 0
    /\ result = <<>>
    /\ queries = <<>>
    /\ completion_order = <<>>
    /\ output_created = FALSE
    /\ output_file = <<>>
    /\ output_pos = 0
    /\ progress = 0
    /\ run_result = Ok(<<>>)

\* The whole run of main from the call of queries() on.
Init ==
    /\ args = [query_retires |-> DefaultQueryRetires]
    /\ metadata \in RunDescriptors
    /\ pc = "queries"
    /\ fetch_worker_handles = <<>>
    /\ InitCommon

Queries == QueriesBegin \/ QueriesLoop \/ QueriesReturn

Fetch == \E t \in 1 .. Len(fetch_worker_handles) : \E r \in Responses : TryQuery(t, r)

Next ==
    \/ Queries
    \/ SpawnFetchWorker
    \/ CreateOutputFile
    \/ Fetch
    \/ CollectFetchWorker
    \/ Finish

Spec == Init /\ [][Next]_vars

\* queries() on every descriptor.
InitPlan ==
    /\ args = [query_retires |-> DefaultQueryRetires]
    /\ metadata \in PlanDescriptors
    /\ pc = "queries"
    /\ fetch_worker_handles = <<>>
    /\ InitCommon

NextPlan == Queries

SpecPlan == InitPlan /\ [][NextPlan]_vars

\* fetch_query on its own, for every max_tries.
InitFetch ==
    /\ args = [query_retires |-> DefaultQueryRetires]
    /\ metadata \in {m \in RunDescriptors : m.source_count = Some(1)
                                           /\ m.source_spatial_reference.some}
    /\ pc = "fetch_query"
    /\ \E max_tries \in -1 .. MaxTries : fetch_worker_handles = <<Running(max_tries)>>
    /\ InitCommon

NextFetch == Fetch

SpecFetch == InitFetch /\ [][NextFetch]_vars

(***************************************************************************)
(* RestServiceFieldType                                                    *)
(***************************************************************************)
RestServiceFieldTypes ==
    {"Blob", "Date", "Double", "Float", "Geometry", "GlobalID", "GUID",
     "Integer", "OID", "Raster", "Single", "SmallInteger", "String", "XML"}

\* impl Display for RestServiceFieldType
RestServiceFieldType_to_string ==
    [Blob |-> "esriFieldTypeBlob",
     Date |-> "esriFieldTypeDate",
     Double |-> "esriFieldTypeDouble",
     Float |-> "esriFieldTypeFloat",
     Geometry |-> "esriFieldTypeGeometry",
     GlobalID |-> "esriFieldTypeGlobalID",
     GUID |-> "esriFieldTypeGUID",
     Integer |-> "esriFieldTypeInteger",
     OID |-> "esriFieldTypeOID",
     Raster |-> "esriFieldTypeRaster",
     Single |-> "esriFieldTypeSingle",
     SmallInteger |-> "esriFieldTypeSmallInteger",
     String |-> "esriFieldTypeString",
     XML |-> "esriFieldTypeXML"]

\* the error of a missing key in place of FieldTypeParsing
FieldTypeParsing_as_missing_key(message) ==
    [tag |-> "Err", err |-> "MissingKey", val |-> message]

FieldTypeParsing(message) == [tag |-> "Err", err |-> "FieldTypeParsing", val |-> message]

\* from_str with the arm of esriFieldTypeSingle giving Float
RestServiceFieldType_from_str_single_as_float(field_type) ==
    CASE field_type = "esriFieldTypeBlob" -> Returned("Blob")
      [] field_type = "esriFieldTypeDate" -> Returned("Date")
      [] field_type = "esriFieldTypeDouble" -> Returned("Double")
      [] field_type = "esriFieldTypeFloat" -> Returned("Float")
      [] field_type = "esriFieldTypeGeometry" -> Returned("Geometry")
      [] field_type = "esriFieldTypeGlobalID" -> Returned("GlobalID")
      [] field_type = "esriFieldTypeGUID" -> Returned("GUID")
      [] field_type = "esriFieldTypeInteger" -> Returned("Integer")
      [] field_type = "esriFieldTypeOID" -> Returned("OID")
      [] field_type = "esriFieldTypeRaster" -> Returned("Raster")
      [] field_type = "esriFieldTypeSingle" -> Returned("Float")
      [] field_type = "esriFieldTypeSmallInteger" -> Returned("SmallInteger")
      [] field_type = "esriFieldTypeString" -> Returned("String")
      [] field_type = "esriFieldTypeXML" -> Returned("XML")
      [] OTHER -> FieldTypeParsing("Could not decode the field type of \"" \o field_type \o "\"")

RestServiceFieldType_from_str(field_type) ==
    CASE field_type = "esriFieldTypeBlob" -> Returned("Blob")
      [] field_type = "esriFieldTypeDate" -> Returned("Date")
      [] field_type = "esriFieldTypeDouble" -> Returned("Double")
      [] field_type = "esriFieldTypeFloat" -> Returned("Float")
      [] field_type = "esriFieldTypeGeometry" -> Returned("Geometry")
      [] field_type = "esriFieldTypeGlobalID" -> Returned("GlobalID")
      [] field_type = "esriFieldTypeGUID" -> Returned("GUID")
      [] field_type = "esriFieldTypeInteger" -> Returned("Integer")
      [] field_type = "esriFieldTypeOID" -> Returned("OID")
      [] field_type = "esriFieldTypeRaster" -> Returned("Raster")
      [] field_type = "esriFieldTypeSingle" -> Returned("Single")
      [] field_type = "esriFieldTypeSmallInteger" -> Returned("SmallInteger")
      [] field_type = "esriFieldTypeString" -> Returned("String")
      [] field_type = "esriFieldTypeXML" -> Returned("XML")
      [] OTHER -> FieldTypeParsing("Could not decode the field type of \"" \o field_type \o "\"")

(***************************************************************************)
(* The encoding functions of scraping.rs, each called once on an input     *)
(* from a bounded set.                                                     *)
(***************************************************************************)
JsonValues ==
    {JNull, JBool(TRUE), JBool(FALSE), JFloat(2, 0), JFloat(2, 5),
     JArray(<<>>), JArray(<<1, 2>>)}
    \cup {JInt(n) : n \in -1 .. 2}
    \cup {JString(s) : s \in {"", "1", "2", "Plugged"}}

\* A domain as parse_domain builds it: the text of each code to its name.
StatusCodes == ("1" :> "Active") @@ ("2" :> "Plugged")

CodedFields ==
    {RestServiceField("STATUS", "Integer", Some(StatusCodes)),
     RestServiceField("KIND", "String", Some([c \in {} |-> ""]))}

PlainFields == {RestServiceField("NAME", "String", NoCodes)}

EncodeFields ==
    <<RestServiceField("NAME", "String", NoCodes),
      RestServiceField("STATUS", "Integer", Some(StatusCodes))>>

AttributeObjects ==
    UNION {[names -> {JNull, JInt(1), JString("a")}] :
              names \in SUBSET {"NAME", "STATUS"}}

AttributeMembers == {Absent, NotObject} \cup {Object(o) : o \in AttributeObjects}

\* An envelope with its four corners, and one with z and m ranges as well,
\* of which the m range is null.
EnvelopeXY ==
    ("xmin" :> JInt(1)) @@ ("ymin" :> JInt(2)) @@ ("xmax" :> JFloat(3, 5)) @@ ("ymax" :> JInt(4))

EnvelopeXYZM ==
    EnvelopeXY @@ ("zmin" :> JInt(0)) @@ ("zmax" :> JInt(9))
               @@ ("mmin" :> JNull) @@ ("mmax" :> JNull)

GeometryMembers ==
    {Absent, NotObject,
     Object(("x" :> JFloat(1, 5)) @@ ("y" :> JInt(2))),
     Object("rings" :> JArray(<<1, 2>>)),
     Object(EnvelopeXY), Object(EnvelopeXYZM)}

GeoTypes == {"Point", "Polygon", "Envelope", "None"}

Alphabet == SpecialChars \cup {"a"}

Strings == UNION {[1 .. n -> Alphabet] : n \in 0 .. MaxLen}

(***************************************************************************)
(* RestServiceGeometryType::from_str                                       *)
(***************************************************************************)
RestServiceGeometryTypes ==
    {"Point", "Multipoint", "Polyline", "Polygon", "Envelope", "None"}

RestServiceGeometryType_from_str(geo_type) ==
    CASE geo_type = "esriGeometryPoint" -> Returned("Point")
      [] geo_type = "esriGeometryMultipoint" -> Returned("Multipoint")
      [] geo_type = "esriGeometryPolyline" -> Returned("Polyline")
      [] geo_type = "esriGeometryPolygon" -> Returned("Polygon")
      [] geo_type = "esriGeometryEnvelope" -> Returned("Envelope")
      [] OTHER -> FieldTypeParsing("Could not decode the geometry type of \"" \o geo_type \o "\"")

\* What Display prints for each kind, and strings that are none of them.
GeometryTypeInputs ==
    {GeometryTypeNames[k] : k \in RestServiceGeometryTypes}
    \cup {"", "esriGeometryUnknown", "Point", "esrigeometrypoint",
          "esriFieldTypeGeometry"}

(***************************************************************************)
(* get_service_max_min_oid: the bounds read from the answer to the         *)
(* identifiers-only query.                                                 *)
(***************************************************************************)
\* Value::as_i64: an integer, nothing for any other value.
as_i64(json_value) ==
    IF json_value.t = "int" THEN Some(json_value.n) ELSE None

\* Option::unwrap_or_default on an i64
unwrap_or_default(option) == IF option.some THEN option.val ELSE 0

\* The "objectIds" member of the answer: no array (absent, null) or an array.
NoArray == [is_array |-> FALSE, items |-> <<>>]
Array(items) == [is_array |-> TRUE, items |-> items]

\* `object_ids_json[object_ids_json.len() - 1]` on an empty array panics: the
\* subtraction overflows, or the index is out of bounds where overflow wraps.
get_service_max_min_oid(object_ids) ==
    IF ~object_ids.is_array THEN Returned(None)
    ELSE IF Len(object_ids.items) = 0 THEN Panicked("index:objectIds")
    ELSE LET max == unwrap_or_default(as_i64(object_ids.items[Len(object_ids.items)]))
             min == unwrap_or_default(as_i64(object_ids.items[1]))
         IN Returned(Some(<<max, min>>))

\* The answers of a service: identifiers in any order, or a value that is no
\* integer, in an array of up to MaxLen items; or no array.
ObjectIdItems == {JInt(n) : n \in 1 .. MaxSpan} \cup {JNull}

ObjectIdsMembers ==
    {NoArray} \cup {Array(items) : items \in UNION {[1 .. n -> ObjectIdItems] : n \in 0 .. MaxLen}}

\* The names Display gives and strings that are none of them.
FieldTypeInputs ==
    {RestServiceFieldType_to_string[v] : v \in RestServiceFieldTypes}
    \cup {"", "esriFieldTypeUnknown", "esrifieldtypeblob", "Blob",
          "esriFieldTypeBlob ", "esriGeometryPoint"}

EncodeCalls ==
    {[fn |-> "convert_json_field", field |-> f, json_value |-> v] :
        f \in CodedFields \cup PlainFields, v \in JsonValues}
    \cup {[fn |-> "convert_geometry", geo_type |-> g,
           feature |-> Feature(Object(EmptyObject), m)] :
             g \in GeoTypes, m \in GeometryMembers}
    \cup {[fn |-> "handle_record", fields |-> parse_fields(EncodeFields, g),
           geo_type |-> g,
           feature |-> Feature(a, m)] :
             g \in GeoTypes, a \in AttributeMembers, m \in GeometryMembers}
    \cup {[fn |-> "handle_csv_value", value |-> v] : v \in Strings}
    \cup {[fn |-> "from_str", field_type |-> n] : n \in FieldTypeInputs}
    \cup {[fn |-> "RestServiceGeometryType::from_str", geo_type |-> n] :
             n \in GeometryTypeInputs}
    \cup {[fn |-> "get_service_max_min_oid", object_ids |-> o] :
             o \in ObjectIdsMembers}

EncodeUnchanged ==
    UNCHANGED <<args, call, metadata, remaining_records_count, query_index,
                result, queries, fetch_worker_handles, completion_order,
                output_created, output_file, output_pos, progress, run_result>>

ConvertJsonField ==
    /\ pc = "encode"
    /\ call.fn = "convert_json_field"
    /\ ret' = Returned(convert_json_field(call.field, call.json_value))
    /\ pc' = "encoded"
    /\ EncodeUnchanged

ConvertGeometry ==
    /\ pc = "encode"
    /\ call.fn = "convert_geometry"
    /\ ret' = convert_geometry(call.geo_type, call.feature)
    /\ pc' = "encoded"
    /\ EncodeUnchanged

HandleRecord ==
    /\ pc = "encode"
    /\ call.fn = "handle_record"
    /\ ret' = handle_record(call.fields, call.geo_type, call.feature)
    /\ pc' = "encoded"
    /\ EncodeUnchanged

HandleCsvValue ==
    /\ pc = "encode"
    /\ call.fn = "handle_csv_value"
    /\ ret' = Returned(handle_csv_value(call.value))
    /\ pc' = "encoded"
    /\ EncodeUnchanged

FieldTypeFromStr ==
    /\ pc = "encode"
    /\ call.fn = "from_str"
    /\ ret' = RestServiceFieldType_from_str(call.field_type)
    /\ pc' = "encoded"
    /\ EncodeUnchanged

GeometryTypeFromStr ==
    /\ pc = "encode"
    /\ call.fn = "RestServiceGeometryType::from_str"
    /\ ret' = RestServiceGeometryType_from_str(call.geo_type)
    /\ pc' = "encoded"
    /\ EncodeUnchanged

GetServiceMaxMinOid ==
    /\ pc = "encode"
    /\ call.fn = "get_service_max_min_oid"
    /\ ret' = get_service_max_min_oid(call.object_ids)
    /\ pc' = "encoded"
    /\ EncodeUnchanged

InitEncode ==
    /\ args = [query_retires |-> DefaultQueryRetires]
    /\ metadata \in {m \in RunDescriptors : m.source_count = Some(1)
                                           /\ m.source_spatial_reference.some}
    /\ pc = "encode"
    /\ fetch_worker_handles = <<>>
    /\ call \in EncodeCalls
    /\ ret = NoReturn
    /\ remaining_records_count = 0
    /\ query_index = 0
    /\ result = <<>>
    /\ queries = <<>>
    /\ completion_order = <<>>
    /\ output_created = FALSE
    /\ output_file = <<>>
    /\ output_pos = 0
    /\ progress = 0
    /\ run_result = Ok(<<>>)

NextEncode ==
    \/ ConvertJsonField
    \/ ConvertGeometry
    \/ HandleRecord
    \/ HandleCsvValue
    \/ FieldTypeFromStr
    \/ GeometryTypeFromStr
    \/ GetServiceMaxMinOid

SpecEncode == InitEncode /\ [][NextEncode]_vars

\* The run of main on a service of one chunk, for every configured number of
\* retries.
InitArgs ==
    /\ args \in {[query_retires |-> n] : n \in {DefaultQueryRetires} \cup (1 .. MaxTries)}
    /\ metadata \in {m \in RunDescriptors : m.source_count = Some(1)
                                           /\ m.source_spatial_reference.some}
    /\ pc = "queries"
    /\ fetch_worker_handles = <<>>
    /\ InitCommon

SpecArgs == InitArgs /\ [][Next]_vars

(***************************************************************************)
(* The run on a service that may leave a request without an answer.  The   *)
(* client is reqwest::Client::new(), which sets no timeout, so the task    *)
(* stays at `send().await` of try_query.  The runtime keeps running main   *)
(* and every task that can take a step.                                    *)
(***************************************************************************)
Hang(t) ==
    /\ pc \in {"spawn", "drain"}
    /\ t \in 1 .. Len(fetch_worker_handles)
    /\ fetch_worker_handles[t].state = "running"
    /\ fetch_worker_handles' =
           [fetch_worker_handles EXCEPT ![t] = [@ EXCEPT !.state = "hung"]]
    /\ UNCHANGED <<args, call, ret, metadata, pc, remaining_records_count,
                   query_index, result, queries, completion_order,
                   output_created, output_file, output_pos, progress, run_result>>

TaskStep(t) == (\E r \in Responses : TryQuery(t, r)) \/ Hang(t)

MainStep ==
    Queries \/ SpawnFetchWorker \/ CreateOutputFile \/ CollectFetchWorker \/ Finish

InitLive ==
    /\ args = [query_retires |-> DefaultQueryRetires]
    /\ metadata \in {m \in RunDescriptors : m.source_count \in {Some(1), Some(2)}
                                           /\ m.source_spatial_reference.some}
    /\ pc = "queries"
    /\ fetch_worker_handles = <<>>
    /\ InitCommon

Unanswered == \E t \in 1 .. Len(fetch_worker_handles) : Hang(t)

NextLive ==
    \/ MainStep
    \/ Fetch
    \/ Unanswered

SpecLive ==
    /\ InitLive
    /\ [][NextLive]_vars
    /\ WF_vars(MainStep)
    /\ \A t \in 1 .. MaxRecords : WF_vars(TaskStep(t))

(***************************************************************************)
(* queries() called a second time on the same descriptor; ret keeps what   *)
(* the first call returned.                                                *)
(***************************************************************************)
QueriesOutcome == IF pc = "spawn" THEN Ok(queries) ELSE run_result

QueriesAgain ==
    /\ pc \in {"spawn", "failed"}
    /\ ret = NoReturn
    /\ call' = [fn |-> "queries"]
    /\ ret' = [tag |-> "queries", val |-> QueriesOutcome]
    /\ pc' = "queries"
    /\ UNCHANGED <<args, metadata, remaining_records_count, query_index, result,
                   queries, fetch_worker_handles, completion_order,
                   output_created, output_file, output_pos, progress, run_result>>

NextReplan == Queries \/ QueriesAgain

SpecReplan == InitPlan /\ [][NextReplan]_vars

(***************************************************************************)
(* The tasks of a plan of one chunk more than the runtime has worker       *)
(* threads.  A task that has issued its request waits at `send().await`    *)
(* without holding a worker thread, so the runtime is free to poll the     *)
(* next task.  The schedules followed are those in which the tasks are     *)
(* polled in the order they were spawned and the server answers the        *)
(* requests in that order, each with an empty feature collection.          *)
(***************************************************************************)
SendRequest(t) ==
    /\ pc = "spawn"
    /\ t \in 1 .. Len(fetch_worker_handles)
    /\ fetch_worker_handles[t].state = "running"
    /\ \A u \in 1 .. t - 1 : fetch_worker_handles[u].state # "running"
    /\ fetch_worker_handles' =
           [fetch_worker_handles EXCEPT ![t] = [@ EXCEPT !.state = "sent"]]
    /\ UNCHANGED <<args, call, ret, metadata, pc, remaining_records_count,
                   query_index, result, queries, completion_order,
                   output_created, output_file, output_pos, progress, run_result>>

Issue == \E t \in 1 .. Len(fetch_worker_handles) : SendRequest(t)

EmptyCollection ==
    Response(TRUE, 200, TRUE, TRUE, TRUE, FALSE, TRUE, <<>>, "FeatureCollection", FALSE)

Answer ==
    \E t \in 1 .. Len(fetch_worker_handles) :
        /\ fetch_worker_handles[t].state = "sent"
        /\ \A u \in 1 .. t - 1 : fetch_worker_handles[u].state = "finished"
        /\ TryQuery(t, EmptyCollection)

InitPool ==
    /\ args = [query_retires |-> DefaultQueryRetires]
    /\ metadata \in {[m EXCEPT !.source_count = Some(worker_threads + 1)] :
                       m \in {d \in RunDescriptors :
                                 /\ d.source_count = Some(1)
                                 /\ d.source_spatial_reference.some}}
    /\ pc = "spawn"
    /\ queries = [i \in 1 .. worker_threads + 1 |->
                     pagination_query(metadata, i - 1).val]
    /\ result = queries
    /\ remaining_records_count = 0
    /\ query_index = worker_threads + 1
    /\ fetch_worker_handles = <<>>
    /\ call = NoCall
    /\ ret = NoReturn
    /\ completion_order = <<>>
    /\ output_created = FALSE
    /\ output_file = <<>>
    /\ output_pos = 0
    /\ progress = 0
    /\ run_result = Ok(<<>>)

NextPool ==
    \/ SpawnFetchWorker
    \/ Issue
    \/ Answer

SpecPool == InitPool /\ [][NextPool]_vars

(***************************************************************************)
(* Properties                                                              *)
(***************************************************************************)
IsFeature(tok) == tok[1] = "feature"

\* The features a chunk hands to the drain, as the tokens main writes for them.
RECURSIVE PlannedFeatures(_)
PlannedFeatures(k) ==
    IF k = 0 THEN <<>>
    ELSE LET task == fetch_worker_handles[k]
             own == IF task.tag = "Ok" /\ task.file.geojson_type = "FeatureCollection"
                    THEN [i \in 1 .. Len(task.file.features) |->
                              FEATURE(k, task.file.features[i])]
                    ELSE <<>>
         IN PlannedFeatures(k - 1) \o own

\* C1: whatever the order in which the fetch tasks complete, the features in
\* the output file are those of the consumed chunks in planned (spawn) order:
\* after the drain has consumed k handles the feature sequence of the file is
\* the concatenation of the features of chunks 1..k.
C1_PlannedOrder ==
    pc \in {"drain", "done", "failed"} =>
        SelectSeq(output_file, IsFeature) = PlannedFeatures(progress)

\* Two chunks with features, the second fetched first, and the run is over.
C1_Witness ==
    /\ pc = "done"
    /\ completion_order = <<2, 1>>
    /\ SelectSeq(output_file, IsFeature) = <<FEATURE(1, 1), FEATURE(2, 1), FEATURE(2, 2)>>

MinOf(a, b) == IF a < b THEN a ELSE b

\* C2: with offset pagination, when queries() returns for a record count
\* n >= 0 and c = min(max_record_count, 10000), it returns ceil(n / c)
\* queries, query i (0-based) has resultOffset = i * c and resultRecordCount
\* = c, so the windows are adjacent from 0 on and reach n; n = 0 gives no
\* query.
C2_OffsetWindows ==
    (pc = "spawn" /\ metadata.pagination_enabled /\ metadata.source_count.val >= 0) =>
        LET n == metadata.source_count.val
            c == MinOf(metadata.max_record_count, 10000)
        IN IF n = 0 THEN queries = <<>>
           ELSE /\ c >= 1
                /\ Len(queries) = CeilDiv(n, c)
                /\ \A i \in 1 .. Len(queries) :
                      /\ queries[i].kind = "pagination"
                      /\ queries[i].resultOffset = (i - 1) * c
                      /\ queries[i].resultRecordCount = c
                /\ (Len(queries) - 1) * c < n
                /\ Len(queries) * c >= n

\* A record count of 20001 under an advertised chunk size above the ceiling.
C2_Witness ==
    /\ pc = "spawn"
    /\ metadata.pagination_enabled
    /\ metadata.source_count = Some(2 * HardCap + 1)
    /\ metadata.max_record_count > HardCap
    /\ Len(queries) = 3
    /\ queries[3].resultOffset = 20000

\* C3: in identifier-range mode with bounds (min, max) and n > 0 records, every
\* identifier between min and max lies in the range of some planned query.
C3_IdentifierCoverage ==
    (/\ pc = "spawn"
     /\ ~metadata.pagination_enabled
     /\ metadata.oid_field.some
     /\ metadata.max_min_oid.some
     /\ metadata.source_count.val > 0) =>
        \A id \in metadata.max_min_oid.val[2] .. metadata.max_min_oid.val[1] :
            \E i \in 1 .. Len(queries) :
                queries[i].where_lower <= id /\ id <= queries[i].where_upper

TransientErrors ==
    {"InvalidResponse", "InvalidJsonResponse", "ErrorJsonResponse",
     "UnknownJsonResponse"}

\* C4: for max_tries = n >= 1, as long as every attempt has been a transient
\* failure and fewer than n were made the fetch goes on; once n attempts have
\* all failed transiently exactly n requests were issued and the result is
\* TooManyRetires(n); an attempt that succeeds ends the loop at once, within
\* the n requests, with a result other than TooManyRetires.
C4_RetryCap ==
    \A t \in 1 .. Len(fetch_worker_handles) :
        LET task == fetch_worker_handles[t] IN
        (Observed /\ task.max_tries >= 1) =>
            /\ task.state = "running" =>
                  /\ task.calls = task.attempts
                  /\ task.calls < task.max_tries
                  /\ task.calls > 0 => task.last_error \in TransientErrors
            /\ (task.state = "finished" /\ task.last_error \in TransientErrors) =>
                  /\ task.calls = task.max_tries
                  /\ task.tag = "Err" /\ task.err = "TooManyRetires"
                  /\ task.err_arg = task.max_tries
            /\ (task.state = "finished" /\ task.last_error = "none") =>
                  /\ task.calls >= 1 /\ task.calls <= task.max_tries
                  /\ task.err # "TooManyRetires"

\* Three transient failures under max_tries = 3.
C4_Witness ==
    /\ Observed
    /\ fetch_worker_handles[1].max_tries = 3
    /\ fetch_worker_handles[1].state = "finished"
    /\ fetch_worker_handles[1].calls = 3
    /\ fetch_worker_handles[1].err = "TooManyRetires"

RECURSIVE CommaSeparated(_)
CommaSeparated(fs) ==
    IF Len(fs) = 0 THEN <<>>
    ELSE IF Len(fs) = 1 THEN fs
    ELSE <<Head(fs), COMMA>> \o CommaSeparated(Tail(fs))

AllCollections ==
    \A k \in 1 .. Len(fetch_worker_handles) :
        /\ fetch_worker_handles[k].tag = "Ok"
        /\ fetch_worker_handles[k].file.geojson_type = "FeatureCollection"

\* C5: after the drain has consumed k >= 1 successful chunks the output is the
\* opening once, the crs block of the first chunk if it has one, all features
\* as one comma-separated array, and the closing once at the very end.
C5_SingleCollection ==
    (pc = "done" /\ Len(fetch_worker_handles) >= 1 /\ AllCollections) =>
        output_file =
            <<OPEN>> \o (IF fetch_worker_handles[1].file.crs THEN <<CRS(1)>> ELSE <<>>)
                     \o <<FEATURES_KEY, LBRACKET>>
                     \o CommaSeparated(PlannedFeatures(Len(fetch_worker_handles)))
                     \o <<RBRACKET, RBRACE>>

\* C6: a run whose planned chunk sequence is empty ends successfully and leaves
\* an empty FeatureCollection: the opening, an empty features array, the closing.
C6_EmptyCollection ==
    (pc \in {"done", "failed"} /\ queries = <<>> /\ output_created) =>
        /\ pc = "done"
        /\ output_file = <<OPEN, FEATURES_KEY, LBRACKET, RBRACKET, RBRACE>>

\* C7: an attempt whose body is not JSON is a retryable failure: while fewer
\* than max_tries requests have been issued the fetch goes on after it, and it
\* never ends the fetch with an error other than exhausted retries.
C7_UnparsableBodyRetried ==
    \A t \in 1 .. Len(fetch_worker_handles) :
        LET task == fetch_worker_handles[t] IN
        (Observed /\ task.max_tries >= 1 /\ task.last_error = "reqwest::decode") =>
            /\ task.calls < task.max_tries => task.state = "running"
            /\ task.state = "finished" =>
                  (task.tag = "Err" /\ task.err = "TooManyRetires")

\* C8: an attempt that ends with a status other than 200, or with a JSON object
\* that has an error member and no features member, adds one to the attempt
\* counter and is followed by another attempt unless the counter has reached
\* max_tries, in which case the loop ends with TooManyRetires and with nothing
\* else.
C8_StatusAndErrorRetried ==
    [][\A t \in 1 .. Len(fetch_worker_handles) :
          LET task == fetch_worker_handles[t]
              after == fetch_worker_handles'[t]
          IN (/\ Observed
              /\ after.calls = task.calls + 1
              /\ after.last_error \in {"InvalidResponse", "ErrorJsonResponse"}) =>
                 \/ /\ after.state = "running"
                    /\ after.attempts = task.attempts + 1
                    /\ after.attempts < task.max_tries
                 \/ /\ after.state = "finished"
                    /\ task.attempts + 1 >= task.max_tries
                    /\ after.tag = "Err" /\ after.err = "TooManyRetires"]_vars

\* Two failed attempts, the latest on a bad status, and the fetch goes on.
C8_Witness ==
    /\ Observed
    /\ fetch_worker_handles[1].state = "running"
    /\ fetch_worker_handles[1].attempts = 2
    /\ fetch_worker_handles[1].last_error = "InvalidResponse"

MalformedFeature(r) ==
    /\ try_query(r).ok
    /\ r.features_is_array
    /\ \E i \in 1 .. Len(r.features) : r.features[i] # "ok"

\* C9: a response that is otherwise successful but holds a malformed feature
\* makes fetch_query return an error, and a fetch that is over issues no
\* further request.
C9_MalformedFeatureFatal ==
    [][/\ \A r \in Responses :
            (/\ fetch_worker_handles[1].max_tries >= 1
             /\ MalformedFeature(r)
             /\ TryQuery(1, r)) =>
                /\ fetch_worker_handles'[1].state = "finished"
                /\ fetch_worker_handles'[1].tag = "Err"
       /\ \A t \in 1 .. Len(fetch_worker_handles) :
            fetch_worker_handles[t].state = "finished" =>
                fetch_worker_handles'[t] = fetch_worker_handles[t]]_vars

IsChunkData(tok) == tok[1] \in {"feature", "\"crs\":{},"}

\* C10: when the drain reaches a chunk whose fetch ended in an error, main
\* returns that error and leaves the output file as it is; the file then holds
\* the features of the chunks before it and nothing of that chunk or a later
\* one, and it never changes again.
C10_FailurePropagation ==
    /\ [][/\ \A k \in 1 .. Len(fetch_worker_handles) :
               (/\ pc = "drain"
                /\ progress + 1 = k
                /\ fetch_worker_handles[k].state = "finished"
                /\ fetch_worker_handles[k].tag = "Err"
                /\ progress' # progress) =>
                   /\ pc' = "failed"
                   /\ run_result' = Err(fetch_worker_handles[k].err)
                   /\ output_file' = output_file
                   /\ output_pos' = output_pos
          /\ pc = "failed" => output_file' = output_file]_vars
    /\ [](\A k \in 1 .. Len(fetch_worker_handles) :
            (/\ pc = "failed"
             /\ progress = k
             /\ fetch_worker_handles[k].tag = "Err") =>
                /\ run_result = Err(fetch_worker_handles[k].err)
                /\ SelectSeq(output_file, IsFeature) = PlannedFeatures(k - 1)
                /\ \A i \in 1 .. Len(output_file) :
                      IsChunkData(output_file[i]) => output_file[i][2] < k)

\* The first chunk exhausted its retries after the second had been fetched
\* with features; the run failed and the file holds nothing.
C10_Witness ==
    /\ pc = "failed"
    /\ progress = 1
    /\ Len(fetch_worker_handles) = 2
    /\ fetch_worker_handles[1].err = "TooManyRetires"
    /\ fetch_worker_handles[2].tag = "Ok"
    /\ Len(fetch_worker_handles[2].file.features) = 2
    /\ completion_order = <<2, 1>>
    /\ run_result = Err("TooManyRetires")
    /\ output_file = <<>>

\* C11: the attempt cap of every chunk's fetch is the configured
\* args.query_retires, and a fetch that gives up reports that number.
C11_ConfiguredRetries ==
    \A t \in 1 .. Len(fetch_worker_handles) :
        /\ fetch_worker_handles[t].max_tries = args.query_retires
        /\ fetch_worker_handles[t].err = "TooManyRetires" =>
              fetch_worker_handles[t].err_arg = args.query_retires

\* A descriptor of a service with geometry: not a table, a geometry kind set.
RequiresGeometry(m) == ~is_table(m) /\ m.geo_type # "None"

OutSRExpected(m) ==
    IF m.output_spatial_reference.some
    THEN m.output_spatial_reference.val
    ELSE m.source_spatial_reference.val

\* C12: for a service with geometry of which the requested or the source
\* spatial reference is known, planning does not fail for want of a spatial
\* reference and every query carries outSR = the requested reference when
\* present, else the source reference.
C12_OutputReferencePreferred ==
    (/\ RequiresGeometry(metadata)
     /\ \/ metadata.output_spatial_reference.some
        \/ metadata.source_spatial_reference.some)
        => /\ run_result.err # "NoSpatialReference"
           /\ \A i \in 1 .. Len(result) :
                  /\ result[i].has_geometry
                  /\ result[i].outSR = OutSRExpected(metadata)

\* C13: for a service with geometry and neither spatial reference known,
\* queries() never returns a sequence of queries and no fetch task exists.
C13_NoReferenceFailsFast ==
    (/\ RequiresGeometry(metadata)
     /\ ~metadata.output_spatial_reference.some
     /\ ~metadata.source_spatial_reference.some)
        => /\ pc \notin {"spawn", "drain", "done"}
           /\ fetch_worker_handles = <<>>

\* C14: without offset pagination, queries() returns no sequence of queries,
\* empty or not, unless the identifier field and the bounds are both present.
C14_IdentifierPlanNeedsBounds ==
    (/\ ~metadata.pagination_enabled
     /\ ~(metadata.oid_field.some /\ metadata.max_min_oid.some))
        => pc # "spawn"

\* C15: for the service type that request_service_metadata gives the geometry
\* kind None, planning never fails for want of a spatial reference and no
\* query carries geometryType or outSR.
C15_TableOmitsGeometry ==
    (metadata.server_type = "table" /\ metadata.geo_type = "None")
        => /\ run_result.err # "NoSpatialReference"
           /\ \A i \in 1 .. Len(result) : ~result[i].has_geometry

\* C16: convert_json_field gives two values for a field with a coded domain,
\* the converted code and then its label in the domain ("" when the domain
\* has no such code), and one value, the converted value, for any other field.
C16_CodedFieldTwoValues ==
    (pc = "encoded" /\ call.fn = "convert_json_field")
        => LET code == convert_json_value(call.json_value)
               codes == call.field.codes.val
           IN /\ ret.tag = "Ok"
              /\ ret.val[1] = code
              /\ IF call.field.codes.some
                 THEN /\ Len(ret.val) = 2
                      /\ code \in DOMAIN codes => ret.val[2] = codes[code]
                      /\ code \notin DOMAIN codes => ret.val[2] = ""
                 ELSE Len(ret.val) = 1

\* the number 2 of a field whose domain names code 2 "Plugged"
C16_Witness ==
    /\ pc = "encoded"
    /\ call.fn = "convert_json_field"
    /\ call.field.name = "STATUS"
    /\ call.json_value = JInt(2)
    /\ ret.val = <<"2", "Plugged">>

\* The feature with JSON null for every declared field its attributes lack.
WithNulls(fields, feature) ==
    LET names == {fields[i].name : i \in {j \in 1 .. Len(fields) :
                                              fields[j].field_type # "Geometry"}}
        obj == feature.attributes.obj
    IN Feature(Object([n \in names \cup DOMAIN obj |->
                          IF n \in DOMAIN obj THEN obj[n] ELSE JNull]),
               feature.geometry)

\* C17: handle_record returns for attributes that lack a declared field the
\* full record it returns when that field is null.
C17_AbsentAttributeAsNull ==
    (/\ pc = "encoded"
     /\ call.fn = "handle_record"
     /\ call.feature.attributes.is_object)
        => LET filled == handle_record(call.fields, call.geo_type,
                                       WithNulls(call.fields, call.feature))
           IN filled.tag = "Ok" => ret = filled

\* C18: for a service with geometry and a feature whose "geometry" member is
\* absent or not an object, convert_geometry returns one empty string per
\* geometry column.
C18_MissingGeometryEmpty ==
    (/\ pc = "encoded"
     /\ call.fn = "convert_geometry"
     /\ call.geo_type # "None"
     /\ ~call.feature.geometry.is_object)
        => /\ ret.tag = "Ok"
           /\ ret.val = [i \in 1 .. Len(GeometryColumns[call.geo_type]) |-> ""]

\* One field of a CSV line read as RFC 4180 says: a quoted field ends at its
\* closing quote and holds "" for each quote, a bare field holds no comma,
\* quote or line break.
RECURSIVE Unescaped(_, _)
Unescaped(text, i) ==
    IF i > Len(text) THEN [ok |-> TRUE, val |-> <<>>]
    ELSE IF text[i] # quote
    THEN LET rest == Unescaped(text, i + 1)
         IN [ok |-> rest.ok, val |-> <<text[i]>> \o rest.val]
    ELSE IF i + 1 <= Len(text) /\ text[i + 1] = quote
    THEN LET rest == Unescaped(text, i + 2)
         IN [ok |-> rest.ok, val |-> <<quote>> \o rest.val]
    ELSE [ok |-> FALSE, val |-> <<>>]

ReadCsvField(text) ==
    IF Len(text) >= 2 /\ text[1] = quote /\ text[Len(text)] = quote
    THEN Unescaped(SubSeq(text, 2, Len(text) - 1), 1)
    ELSE IF \E i \in 1 .. Len(text) : text[i] \in SpecialChars
    THEN [ok |-> FALSE, val |-> <<>>]
    ELSE [ok |-> TRUE, val |-> text]

Quotes(value) == Cardinality({i \in 1 .. Len(value) : value[i] = quote})

\* C19: what handle_csv_value returns reads back as the value; it is the value
\* between quotes with each quote doubled when the value holds a comma, a
\* quote or a line break, and the value itself otherwise.
C19_CsvRoundTrip ==
    (pc = "encoded" /\ call.fn = "handle_csv_value")
        => LET text == ret.val
               read == ReadCsvField(text)
           IN /\ read.ok /\ read.val = call.value
              /\ IF \E i \in 1 .. Len(call.value) : call.value[i] \in SpecialChars
                 THEN /\ text[1] = quote /\ text[Len(text)] = quote
                      /\ Len(text) = Len(call.value) + Quotes(call.value) + 2
                 ELSE text = call.value

\* a value with a quote and a comma
C19_Witness ==
    /\ pc = "encoded"
    /\ call.fn = "handle_csv_value"
    /\ call.value = <<"a", quote, ",">>
    /\ ret.val = <<quote, "a", quote, quote, ",", quote>>

\* C20: every request ends, so every task finishes and the run of main
\* eventually returns.
C20_RunTerminates == <>(pc \in {"done", "failed"})

\* The requests issued and not yet answered.
InFlight ==
    {t \in 1 .. Len(fetch_worker_handles) : fetch_worker_handles[t].state = "sent"}

\* C21: at no point are more chunk requests in flight than the pool has
\* worker threads.
C21_BoundedInFlight == Cardinality(InFlight) <= worker_threads

CanonicalFieldTypeName(v) == "esriFieldType" \o v

\* C23: from_str maps the canonical name of each of the 14 variants to that
\* variant, and what Display prints for a variant parses back to it.
C23_FieldTypeFromStrInverse ==
    /\ Cardinality(RestServiceFieldTypes) = 14
    /\ (pc = "encoded" /\ call.fn = "from_str")
          => \A v \in RestServiceFieldTypes :
                /\ call.field_type = CanonicalFieldTypeName(v) => ret = Returned(v)
                /\ call.field_type = RestServiceFieldType_to_string[v] => ret = Returned(v)

C23_Witness ==
    /\ pc = "encoded"
    /\ call.fn = "from_str"
    /\ call.field_type = "esriFieldTypeSingle"
    /\ ret.tag = "Ok"
    /\ ret.val = "Single"

C25_FireAllDispatch ==
    (output_created \/ pc = "drain" \/ progress > 0 \/ output_file # <<>>)
        => Len(fetch_worker_handles) = Len(queries)

\* the file is created while two spawned tasks are still running
C25_Witness ==
    /\ output_created
    /\ progress = 0
    /\ Len(queries) >= 2
    /\ Len(fetch_worker_handles) = Len(queries)
    /\ \A t \in 1 .. Len(fetch_worker_handles) :
           fetch_worker_handles[t].state = "running"

\* C26: with chunk size c > 0, the i-th identifier query (from 0) filters on
\* [min + i*c, min + (i+1)*c - 1]: the first range starts at min, each holds c
\* identifiers and each begins right after the one before.
C26_IdentifierRanges ==
    LET c == scrape_count(metadata)
        min_oid == metadata.max_min_oid.val[2]
    IN \A i \in 1 .. Len(result) :
          (result[i].kind = "oid" /\ c > 0)
              => /\ result[i].where_lower = min_oid + (i - 1) * c
                 /\ result[i].where_upper = min_oid + i * c - 1
                 /\ result[i].where_upper - result[i].where_lower + 1 = c
                 /\ i = 1 => result[i].where_lower = min_oid
                 /\ i > 1 => result[i].where_lower = result[i - 1].where_upper + 1

\* a plan of two identifier ranges
C26_Witness ==
    /\ pc = "spawn"
    /\ Len(result) >= 2
    /\ result[1].kind = "oid"
    /\ result[2].where_lower = result[1].where_upper + 1

\* The byte under the stream position after `seek(SeekFrom::Current(-1))` in
\* the iteration of the drain loop that starts in this state: the last byte
\* the iteration wrote, or the byte before the position it started at.
SeekBackByte ==
    LET toks == CollectionTokens(AwaitedHandle,
                                 fetch_worker_handles[AwaitedHandle].file,
                                 output_pos)
    IN IF toks # <<>> THEN toks[Len(toks)] ELSE output_file[output_pos]

\* C27: the byte over which the drain loop writes the closing is the comma
\* after the last feature written, also for a chunk without features.
C27_SeekBackOnComma ==
    [][(pc = "drain" /\ output_pos' > output_pos) => SeekBackByte = COMMA]_vars

\* C28: the output holds the opening once, at its start, and a crs member only
\* right after it, that of the first chunk, whose collection carries one.
C28_CrsOnceFromFirstChunk ==
    \A i \in 1 .. Len(output_file) :
        /\ output_file[i] = OPEN => i = 1
        /\ \A chunk \in 1 .. Len(fetch_worker_handles) :
               output_file[i] = CRS(chunk)
                   => /\ i = 2
                      /\ chunk = 1
                      /\ fetch_worker_handles[1].file.crs

\* the second chunk carries a crs member, the first does not, both are drained
C28_Witness ==
    /\ progress = 2
    /\ pc = "drain"
    /\ ~fetch_worker_handles[1].file.crs
    /\ fetch_worker_handles[2].file.crs
    /\ output_file[1] = OPEN
    /\ \E i \in 1 .. Len(output_file) : output_file[i] = FEATURE(2, 1)

\* The fields of a schema that are no geometry field, by index, and the
\* number of values the fields before index i put in a record.
ValueFields(fields) == {i \in 1 .. Len(fields) : fields[i].field_type # "Geometry"}

CodedAmong(fields, indices) == {i \in indices : fields[i].codes.some}

ValuesBefore(fields, i) ==
    LET before == {j \in ValueFields(fields) : j < i}
    IN Cardinality(before) + Cardinality(CodedAmong(fields, before))

EnvelopeComponents ==
    <<"xmin", "ymin", "xmax", "ymax", "zmin", "zmax", "mmin", "mmax">>

RECURSIVE ComponentValues(_, _)
ComponentValues(geometry, i) ==
    IF i > Len(EnvelopeComponents) THEN <<>>
    ELSE (IF EnvelopeComponents[i] \in DOMAIN geometry
          THEN <<convert_json_value(geometry[EnvelopeComponents[i]])>>
          ELSE <<>>)
         \o ComponentValues(geometry, i + 1)

\* C30: for an Envelope service convert_geometry returns one value for each
\* component the geometry holds, in the order XMIN, YMIN, XMAX, YMAX, ZMIN,
\* ZMAX, MMIN, MMAX, and does so for a geometry without z and m components.
C30_EnvelopeComponents ==
    (/\ pc = "encoded"
     /\ call.fn = "convert_geometry"
     /\ call.geo_type = "Envelope"
     /\ call.feature.geometry.is_object
     /\ {"xmin", "ymin", "xmax", "ymax"} \subseteq DOMAIN call.feature.geometry.obj)
        => /\ ret.tag = "Ok"
           /\ ret.val = ComponentValues(call.feature.geometry.obj, 1)

\* C31: a response with a malformed feature makes fetch_query return an
\* error and leaves no file of rows for the drain, and the output file holds
\* features only of chunks whose fetch returned its file.
C31_ChunkAllOrNothing ==
    /\ [][\A t \in 1 .. Len(fetch_worker_handles) : \A r \in Responses :
              (MalformedFeature(r) /\ TryQuery(t, r))
                  => /\ fetch_worker_handles'[t].state = "finished"
                     /\ fetch_worker_handles'[t].tag = "Err"
                     /\ fetch_worker_handles'[t].file = NoFile]_vars
    /\ [](\A i \in 1 .. Len(output_file) :
              output_file[i][1] = "feature"
                  => fetch_worker_handles[output_file[i][2]].tag = "Ok")

\* The rows of a chunk reach the output only with all of the chunk: a fetch
\* that did not return its file leaves none, and no feature of it is written.
ChunkRowsOnlyWhole ==
    /\ [][\A t \in 1 .. Len(fetch_worker_handles) : \A r \in Responses :
              (MalformedFeature(r) /\ TryQuery(t, r))
                  => /\ fetch_worker_handles'[t].state = "finished"
                     /\ fetch_worker_handles'[t].tag # "Ok"
                     /\ fetch_worker_handles'[t].file = NoFile]_vars
    /\ [](\A i \in 1 .. Len(output_file) :
              output_file[i][1] = "feature"
                  => fetch_worker_handles[output_file[i][2]].tag = "Ok")

\* C32: queries() terminates for every descriptor: each iteration of its loop
\* lowers the number of records left to plan, which is never negative, so the
\* loop is left after at most source_count iterations.
C32_PlanTerminates ==
    /\ [][(pc = "queries_loop" /\ pc' = "queries_loop")
              => /\ remaining_records_count' < remaining_records_count
                 /\ remaining_records_count' >= 0]_vars
    /\ [](pc = "queries_loop" => query_index <= metadata.source_count.val)

\* The most requests loop_until_successful issues under max_tries.
MaxCalls(max_tries) == IF max_tries > 1 THEN max_tries ELSE 1

\* C33: for every max_tries, zero and negative included, a fetch that is over
\* has issued at least one request and never more than max(1, max_tries);
\* while the loop runs the attempt counter equals the number of failed
\* requests and is below max_tries; each retryable failure adds exactly one to
\* the counter, and the failure that brings it to max_tries (or beyond, for
\* max_tries < 1) ends the loop with TooManyRetires.
C33_AttemptsBounded ==
    /\ [](\A t \in 1 .. Len(fetch_worker_handles) :
              LET task == fetch_worker_handles[t] IN
              Observed =>
                  /\ task.calls <= MaxCalls(task.max_tries)
                  /\ task.state = "finished" => task.calls >= 1
                  /\ task.state = "running" =>
                        /\ task.attempts = task.calls
                        /\ task.calls > 0 => task.attempts < task.max_tries)
    /\ [][\A t \in 1 .. Len(fetch_worker_handles) :
              LET task == fetch_worker_handles[t]
                  after == fetch_worker_handles'[t]
              IN (Observed /\ task.state = "running" /\ after # task) =>
                    /\ after.calls = task.calls + 1
                    /\ after.state = "running" =>
                          /\ after.last_error \in TransientErrors
                          /\ after.attempts = task.attempts + 1
                    /\ (after.last_error \in TransientErrors
                        /\ task.attempts + 1 >= task.max_tries) =>
                          /\ after.state = "finished"
                          /\ after.tag = "Err" /\ after.err = "TooManyRetires"]_vars

\* Under max_tries = 0 the one request failed transiently and the loop ended.
C33_Witness ==
    /\ Observed
    /\ fetch_worker_handles[1].max_tries = 0
    /\ fetch_worker_handles[1].state = "finished"
    /\ fetch_worker_handles[1].calls = 1
    /\ fetch_worker_handles[1].last_error \in TransientErrors
    /\ fetch_worker_handles[1].err = "TooManyRetires"

\* The largest and the smallest of a non-empty list of identifiers.
Largest(items) ==
    CHOOSE i \in {items[k].n : k \in 1 .. Len(items)} :
        \A k \in 1 .. Len(items) : items[k].n <= i
Smallest(items) ==
    CHOOSE i \in {items[k].n : k \in 1 .. Len(items)} :
        \A k \in 1 .. Len(items) : items[k].n >= i

\* C34: the identifiers-only call on a non-empty list of identifiers, in any
\* order, gives the bounds (maximum of the list, minimum of the list), and on
\* an empty list gives no bounds, without a crash.
C34_IdentifierBounds ==
    (/\ pc = "encoded"
     /\ call.fn = "get_service_max_min_oid"
     /\ call.object_ids.is_array
     /\ \A k \in 1 .. Len(call.object_ids.items) : call.object_ids.items[k].t = "int")
        => /\ ret.tag = "Ok"
           /\ IF Len(call.object_ids.items) = 0
              THEN ~ret.val.some
              ELSE /\ ret.val.some
                   /\ ret.val.val = <<Largest(call.object_ids.items),
                                      Smallest(call.object_ids.items)>>

\* C35: what Display prints for each of the six geometry kinds parses back to
\* that kind.
C35_GeometryTypeFromStrInverse ==
    /\ Cardinality(RestServiceGeometryTypes) = 6
    /\ (pc = "encoded" /\ call.fn = "RestServiceGeometryType::from_str")
          => \A kind \in RestServiceGeometryTypes :
                call.geo_type = GeometryTypeNames[kind] => ret = Returned(kind)

====
